---- MODULE Spec2Model ----
(***************************************************************************)
(* Model of the largest-uniform-rectangle finder of simdat:                *)
(*   DATA.max_size            src/core/tools.py 404-434                    *)
(*   DATA.max_rectangle_size  src/core/tools.py 436-477                    *)
(*   DATA.area                src/core/tools.py 479-480                    *)
(*                                                                         *)
(* max_size is modelled as a caller whose position is pc; each call of     *)
(* max_rectangle_size runs as a callee whose position is rpc, one action   *)
(* per branch of its loops.  A behaviour either starts in max_size with a  *)
(* matrix and a target value (pc = "begin") or directly in                 *)
(* max_rectangle_size with a histogram (pc = "direct").                    *)
(*                                                                         *)
(* Python indices are 0-based and are kept 0-based in pos, start,          *)
(* start_pos, start_row and in the result; the TLA+ sequences are 1-based, *)
(* so column pos of the histogram is histogram[pos + 1].                   *)
(* The first row's histogram is a list of Python bools; bool is a subclass *)
(* of int (True == 1, 1 + True == 2), so it is modelled by 1 and 0.        *)
(***************************************************************************)
EXTENDS Integers, Sequences, FiniteSets

\* ---------------------------------------------------------------- bounds
MaxCells == 9
RagRows == 2
RagCols == 3
StairRows == 5
StairCols == 6
MaxLen == 4
MaxHt == 3

\* cell values; the target value is drawn from the same set
Vals == {0, 1}

\* ------------------------------------------------------- small arithmetic
Abs(n) == IF n < 0 THEN 0 - n ELSE n

Min(a, b) == IF a <= b THEN a ELSE b

SetMax(S) == CHOOSE m \in S : \A n \in S : n <= m

SetMin(S) == CHOOSE m \in S : \A n \in S : m <= n

\* ---------------------------------------------------------------- inputs
\* every rectangular matrix of H >= 1 rows and W >= 1 columns with at most
\* MaxCells cells
RectMats ==
    UNION {[1..q[1] -> [1..q[2] -> Vals]] :
        q \in {d \in (1..MaxCells) \X (1..MaxCells) : d[1] * d[2] <= MaxCells}}

RagRowSet == UNION {[1..w -> Vals] : w \in 0..RagCols}

\* every sequence of at most RagRows rows of at most RagCols cells: ragged
\* matrices, matrices with empty rows, the matrix of zero rows
RaggedMats == UNION {[1..h -> RagRowSet] : h \in 0..RagRows}

StairProfiles ==
    {p \in [1..StairCols -> 0..StairRows] :
        \A c \in 1..(StairCols - 1) : p[c] <= p[c + 1]}

\* the 0/1 matrix whose 1-cells are the bottom p[c] cells of column c
StairMat(p) ==
    [r \in 1..StairRows |->
        [c \in 1..StairCols |-> IF r > StairRows - p[c] THEN 1 ELSE 0]]

StairMats == {StairMat(p) : p \in StairProfiles}

Mats == RectMats \cup RaggedMats \cup StairMats

Histograms == UNION {[1..w -> 0..MaxHt] : w \in 0..MaxLen}

IsRect(m) ==
    /\ Len(m) >= 1
    /\ Len(m[1]) >= 1
    /\ \A r \in 1..Len(m) : Len(m[r]) = Len(m[1])

VARIABLES
    mat, value,                  \* max_size: arguments
    pc,                          \* max_size: position
    it,                          \* max_size: rows the iterator has yielded
    hist, max_size, start_pos, start_row, counter,
    result,                      \* max_size: returned value
    rpc,                         \* max_rectangle_size: position
    histogram,                   \* max_rectangle_size: argument
    stack, r_max_size, pos, start, r_start_pos,
    fi,                          \* max_rectangle_size: frames the flush loop has visited
    npush, npop,                 \* stack.append and stack.pop calls of this call
    ev                           \* the last branch taken in max_rectangle_size

mvars == <<mat, value, pc, it, hist, max_size, start_pos, start_row, counter, result>>

rvars == <<rpc, histogram, stack, r_max_size, pos, start, r_start_pos, fi,
           npush, npop, ev>>

vars == <<mat, value, pc, it, hist, max_size, start_pos, start_row, counter,
          result, rpc, histogram, stack, r_max_size, pos, start, r_start_pos,
          fi, npush, npop, ev>>

NoEv == [op |-> "none", cand |-> <<0, 0>>, prev |-> <<0, 0>>]

\* ------------------------------------------------------------------ area
Area(size) == size[1] * size[2]

\* max(a, b, key=self.area): Python's max returns the first maximal argument
MaxByArea_ge(a, b) == IF Area(b) >= Area(a) THEN b ELSE a

MaxByArea(a, b) == IF Area(b) > Area(a) THEN b ELSE a

\* ------------------------------------------------------ max_rectangle_size
Info(s, h) == [start |-> s, height |-> h]

Top == stack[Len(stack)]

Height == histogram[pos + 1]

\* lines 462-463: the rectangle closed when a frame is popped at column p
Candidate_wide(frame, p) == <<frame.height, (p - frame.start) + 1>>

Candidate(frame, p) == <<frame.height, p - frame.start>>

\* line 472: the rectangle of a frame left on the stack, closed at p = pos
FlushCandidate(frame, p) == <<frame.height, p - frame.start>>

\* lines 472-474: the size kept by one iteration of the flush loop
FlushBest(best, cand) ==
    LET _max_size == MaxByArea(best, cand)
    IN  IF Area(_max_size) >= Area(best) THEN _max_size ELSE best

\* lines 473-475: the start column kept by one iteration of the flush loop
FlushStart_cand(best, cand, frame, old) ==
    IF Area(cand) >= Area(best) THEN frame.start ELSE old

FlushStart(best, cand, frame, old) ==
    LET _max_size == MaxByArea(best, cand)
    IN  IF Area(_max_size) >= Area(best) THEN frame.start ELSE old

\* entry of max_rectangle_size(h): lines 446-449
Call_keep(h) ==
    /\ histogram' = h
    /\ stack' = stack
    /\ r_max_size' = <<0, 0>>
    /\ pos' = 0
    /\ start' = 0
    /\ r_start_pos' = 0
    /\ fi' = 0
    /\ npush' = 0
    /\ npop' = 0
    /\ ev' = NoEv
    /\ rpc' = IF Len(h) = 0 THEN "post" ELSE "scan"

Call(h) ==
    /\ histogram' = h
    /\ stack' = <<>>
    /\ r_max_size' = <<0, 0>>
    /\ pos' = 0
    /\ start' = 0
    /\ r_start_pos' = 0
    /\ fi' = 0
    /\ npush' = 0
    /\ npop' = 0
    /\ ev' = NoEv
    /\ rpc' = IF Len(h) = 0 THEN "post" ELSE "scan"

\* break out of the while loop, then the for loop takes the next column
\* (start = pos) or ends
Advance ==
    IF pos + 1 < Len(histogram)
    THEN /\ pos' = pos + 1
         /\ start' = pos + 1
         /\ rpc' = "scan"
    ELSE /\ pos' = pos
         /\ start' = start
         /\ rpc' = "post"

\* lines 455-459, 467
Push_ge ==
    /\ rpc = "scan"
    /\ IF Len(stack) = 0 THEN TRUE ELSE Height >= Top.height
    /\ stack' = Append(stack, Info(start, Height))
    /\ Advance
    /\ ev' = [op |-> "push", cand |-> <<0, 0>>, prev |-> r_max_size]
    /\ npush' = npush + 1
    /\ UNCHANGED <<histogram, r_max_size, r_start_pos, fi, npop>>
    /\ UNCHANGED mvars

Push ==
    /\ rpc = "scan"
    /\ IF Len(stack) = 0 THEN TRUE ELSE Height > Top.height
    /\ stack' = Append(stack, Info(start, Height))
    /\ Advance
    /\ ev' = [op |-> "push", cand |-> <<0, 0>>, prev |-> r_max_size]
    /\ npush' = npush + 1
    /\ UNCHANGED <<histogram, r_max_size, r_start_pos, fi, npop>>
    /\ UNCHANGED mvars

\* lines 461-465
Pop ==
    /\ rpc = "scan"
    /\ Len(stack) > 0
    /\ Height < Top.height
    /\ r_max_size' = MaxByArea(r_max_size, Candidate(Top, pos))
    /\ start' = Top.start
    /\ stack' = SubSeq(stack, 1, Len(stack) - 1)
    /\ ev' = [op |-> "pop", cand |-> Candidate(Top, pos), prev |-> r_max_size]
    /\ npop' = npop + 1
    /\ UNCHANGED <<rpc, histogram, pos, r_start_pos, fi, npush>>
    /\ UNCHANGED mvars

\* lines 466-467
Equal ==
    /\ rpc = "scan"
    /\ Len(stack) > 0
    /\ Height = Top.height
    /\ Advance
    /\ ev' = [op |-> "equal", cand |-> <<0, 0>>, prev |-> r_max_size]
    /\ UNCHANGED <<histogram, stack, r_max_size, r_start_pos, fi, npush, npop>>
    /\ UNCHANGED mvars

\* lines 469-470
EndScan ==
    /\ rpc = "post"
    /\ pos' = pos + 1
    /\ r_start_pos' = 0
    /\ fi' = 0
    /\ rpc' = "flush"
    /\ ev' = [op |-> "endscan", cand |-> <<0, 0>>, prev |-> r_max_size]
    /\ UNCHANGED <<histogram, stack, r_max_size, start, npush, npop>>
    /\ UNCHANGED mvars

\* lines 471-475: one iteration of "for start, height in stack"
Flush ==
    /\ rpc = "flush"
    /\ fi < Len(stack)
    /\ LET frame == stack[fi + 1]
           cand == FlushCandidate(frame, pos)
       IN  /\ r_max_size' = FlushBest(r_max_size, cand)
           /\ r_start_pos' = FlushStart(r_max_size, cand, frame, r_start_pos)
           /\ start' = frame.start
           /\ ev' = [op |-> "flush", cand |-> cand, prev |-> r_max_size]
    /\ fi' = fi + 1
    /\ UNCHANGED <<rpc, histogram, stack, pos, npush, npop>>
    /\ UNCHANGED mvars

\* line 477
Return ==
    /\ rpc = "flush"
    /\ fi = Len(stack)
    /\ rpc' = "ret"
    /\ ev' = [op |-> "return", cand |-> <<0, 0>>, prev |-> r_max_size]
    /\ UNCHANGED <<histogram, stack, r_max_size, pos, start, r_start_pos, fi,
                   npush, npop>>
    /\ UNCHANGED mvars

\* ---------------------------------------------------------------- max_size
BoolToInt(b) == IF b THEN 1 ELSE 0

\* line 418: hist = [(el == value) for el in next(it, [])]
FirstHist_ne(m, v) ==
    IF Len(m) = 0 THEN <<>>
    ELSE [c \in 1..Len(m[1]) |-> BoolToInt(m[1][c] # v)]

FirstHist(m, v) ==
    IF Len(m) = 0 THEN <<>>
    ELSE [c \in 1..Len(m[1]) |-> BoolToInt(m[1][c] = v)]

\* line 423: zip stops at the shorter of hist and row
UpdateHist_norun(h, row, v) ==
    [c \in 1..Min(Len(h), Len(row)) |-> IF row[c] = v THEN 1 ELSE 0]

UpdateHist_pad(h, row, v) ==
    [c \in 1..Len(row) |->
        IF row[c] = v THEN (IF c <= Len(h) THEN 1 + h[c] ELSE 1) ELSE 0]

UpdateHist(h, row, v) ==
    [c \in 1..Min(Len(h), Len(row)) |-> IF row[c] = v THEN 1 + h[c] ELSE 0]

\* line 429
TopRow_off(row, size) == row - size[1]

TopRow(row, size) == row - size[1] + 1

\* lines 430-433
LeftColumn(sp, size, h) ==
    IF size[2] = Len(h) THEN 0
    ELSE Min(Abs(sp - size[2] + 1), sp)

\* lines 416-419: up to the first call of max_rectangle_size
FirstRow ==
    /\ pc = "begin"
    /\ start_row' = 0
    /\ it' = Min(1, Len(mat))
    /\ hist' = FirstHist(mat, value)
    /\ Call(FirstHist(mat, value))
    /\ pc' = "wait0"
    /\ UNCHANGED <<mat, value, max_size, start_pos, counter, result>>

\* lines 419-420: the first call returns
AfterFirst ==
    /\ pc = "wait0"
    /\ rpc = "ret"
    /\ max_size' = r_max_size
    /\ start_pos' = r_start_pos
    /\ counter' = 0
    /\ pc' = "loop"
    /\ rpc' = "idle"
    /\ UNCHANGED <<mat, value, it, hist, start_row, result>>
    /\ UNCHANGED <<histogram, stack, r_max_size, pos, start, r_start_pos, fi,
                   npush, npop, ev>>

\* lines 421-424: the next row, up to the call of max_rectangle_size
NextRow ==
    /\ pc = "loop"
    /\ it < Len(mat)
    /\ it' = it + 1
    /\ counter' = counter + 1
    /\ hist' = UpdateHist(hist, mat[it + 1], value)
    /\ Call(UpdateHist(hist, mat[it + 1], value))
    /\ pc' = "wait"
    /\ UNCHANGED <<mat, value, max_size, start_pos, start_row, result>>

\* line 425
RowBetter_width(new, old) == new[2] > old[2]

RowBetter_ge(new, old) == Area(new) >= Area(old)

RowBetter(new, old) == Area(new) > Area(old)

\* lines 425-428: the call returns
Compare ==
    /\ pc = "wait"
    /\ rpc = "ret"
    /\ IF RowBetter(r_max_size, max_size)
       THEN /\ max_size' = r_max_size
            /\ start_pos' = r_start_pos
            /\ start_row' = counter
       ELSE UNCHANGED <<max_size, start_pos, start_row>>
    /\ pc' = "loop"
    /\ rpc' = "idle"
    /\ UNCHANGED <<mat, value, it, hist, counter, result>>
    /\ UNCHANGED <<histogram, stack, r_max_size, pos, start, r_start_pos, fi,
                   npush, npop, ev>>

\* lines 429-434
Finish ==
    /\ pc = "loop"
    /\ it = Len(mat)
    /\ result' = <<max_size,
                   <<TopRow(start_row, max_size),
                     LeftColumn(start_pos, max_size, hist)>>>>
    /\ pc' = "done"
    /\ UNCHANGED <<mat, value, it, hist, max_size, start_pos, start_row, counter>>
    /\ UNCHANGED rvars

\* --------------------------------------------------------- specification
InitMatrix ==
    /\ mat \in Mats
    /\ value \in Vals
    /\ pc = "begin"
    /\ rpc = "idle"
    /\ histogram = <<>>

InitDirect ==
    /\ mat = <<>>
    /\ value = 0
    /\ pc = "direct"
    /\ histogram \in Histograms
    /\ rpc = IF Len(histogram) = 0 THEN "post" ELSE "scan"

Init ==
    /\ InitMatrix \/ InitDirect
    /\ it = 0
    /\ hist = <<>>
    /\ max_size = <<0, 0>>
    /\ start_pos = 0
    /\ start_row = 0
    /\ counter = 0
    /\ result = <<>>
    /\ stack = <<>>
    /\ r_max_size = <<0, 0>>
    /\ pos = 0
    /\ start = 0
    /\ r_start_pos = 0
    /\ fi = 0
    /\ npush = 0
    /\ npop = 0
    /\ ev = NoEv

Next ==
    \/ FirstRow
    \/ AfterFirst
    \/ NextRow
    \/ Compare
    \/ Finish
    \/ Push
    \/ Pop
    \/ Equal
    \/ EndScan
    \/ Flush
    \/ Return

Spec == Init /\ [][Next]_vars

\* ------------------------------------------------------------ references
NRows == Len(mat)

NCols == Len(mat[1])

\* every cell of rows t .. t+h-1 and columns l .. l+w-1 (0-based) exists in m
\* and equals v
Uniform(m, v, t, l, h, w) ==
    \A r \in (t + 1)..(t + h) : \A c \in (l + 1)..(l + w) :
        /\ r \in DOMAIN m
        /\ c \in DOMAIN m[r]
        /\ m[r][c] = v

\* the largest area of a sub-rectangle of m whose cells all equal v, by
\* enumeration of every sub-rectangle
BruteMaxArea(m, v) ==
    SetMax({0} \cup
        {s[3] * s[4] :
            s \in {q \in (0..(Len(m) - 1)) \X (0..(Len(m[1]) - 1))
                           \X (1..Len(m)) \X (1..Len(m[1])) :
                      /\ q[1] + q[3] <= Len(m)
                      /\ q[2] + q[4] <= Len(m[1])
                      /\ Uniform(m, v, q[1], q[2], q[3], q[4])}})

\* the largest (j - i) * min(h[i .. j-1]) over 0 <= i < j <= Len(h)
BruteHistArea(h) ==
    SetMax({0} \cup
        {(q[2] - q[1]) * SetMin({h[k] : k \in (q[1] + 1)..q[2]}) :
            q \in {p \in (0..Len(h)) \X (0..Len(h)) : p[1] < p[2]}})

AllTarget(m, v) == \A r \in 1..Len(m) : \A c \in 1..Len(m[r]) : m[r][c] = v

NoTarget(m, v) == \A r \in 1..Len(m) : \A c \in 1..Len(m[r]) : m[r][c] # v

\* the length of the shortest of the first k rows of m (0 when k = 0)
MinLen(m, k) == IF k = 0 THEN 0 ELSE SetMin({Len(m[r]) : r \in 1..k})

\* some row's length differs from the length of the histogram carried from
\* the rows before it
Ragged(m) == \E r \in 2..Len(m) : Len(m[r]) # MinLen(m, r - 1)

Returned == pc = "done"

\* ------------------------------------------------------------------ claims

\* C1: for a rectangular matrix (H >= 1, W >= 1) the area of the size that
\* max_size returns is the largest area of a sub-rectangle whose cells all
\* equal the target value (0 if there is none).
C1_MaxArea ==
    (Returned /\ IsRect(mat)) =>
        Area(result[1]) = BruteMaxArea(mat, value)

\* a returned best that is neither empty nor the whole matrix
C1_Witness ==
    /\ Returned
    /\ IsRect(mat)
    /\ Area(result[1]) >= 4
    /\ Area(result[1]) < NRows * NCols
    /\ Area(result[1]) = BruteMaxArea(mat, value)

\* C2: for a rectangular matrix, every cell of rows top_row ..
\* top_row+height-1 and columns left_column .. left_column+width-1 of the
\* result equals the target value.
C2_CellsEqualTarget ==
    (Returned /\ IsRect(mat)) =>
        Uniform(mat, value, result[2][1], result[2][2],
                result[1][1], result[1][2])

\* C3: for a rectangular matrix the result stays inside the matrix:
\* 0 <= top_row, 0 <= left_column, top_row + height <= H and
\* left_column + width <= W.
C3_InsideMatrix ==
    (Returned /\ IsRect(mat)) =>
        /\ result[2][1] >= 0
        /\ result[2][2] >= 0
        /\ result[2][1] + result[1][1] <= NRows
        /\ result[2][2] + result[1][2] <= NCols

\* C4: for every histogram the area of the size max_rectangle_size returns
\* is the maximum over 0 <= i < j <= W of (j - i) * min(histogram[i .. j-1]).
C4_HistogramArea ==
    rpc = "ret" => Area(r_max_size) = BruteHistArea(histogram)

\* a direct call that returned a best found while frames were still stacked
C4_Witness ==
    /\ pc = "direct"
    /\ rpc = "ret"
    /\ Len(histogram) >= 3
    /\ Len(stack) >= 2
    /\ Area(r_max_size) >= 4
    /\ Area(r_max_size) = BruteHistArea(histogram)

\* C5: for an H x W matrix whose cells all equal the target value, max_size
\* returns height = H, width = W, top_row = 0, left_column = 0.
C5_AllTarget ==
    (Returned /\ IsRect(mat) /\ AllTarget(mat, value)) =>
        result = <<<<NRows, NCols>>, <<0, 0>>>>

C5_Witness ==
    /\ Returned
    /\ IsRect(mat)
    /\ AllTarget(mat, value)
    /\ NRows >= 2
    /\ NCols >= 2
    /\ result = <<<<NRows, NCols>>, <<0, 0>>>>

\* C6: for a rectangular matrix in which the target value never occurs,
\* max_size runs to its return (no step of it is stuck) and returns a
\* rectangle of area 0.
C6_NoTarget ==
    (IsRect(mat) /\ NoTarget(mat, value) /\ pc # "direct") =>
        /\ Returned => Area(result[1]) = 0
        /\ ~Returned => ENABLED Next

C6_Witness ==
    /\ Returned
    /\ IsRect(mat)
    /\ NoTarget(mat, value)
    /\ NRows >= 2
    /\ NCols >= 2
    /\ Area(result[1]) = 0

\* C7 as stated: with a matrix of zero rows max_size fails and returns no
\* result.
C7_EmptyMatrixFails ==
    Len(mat) = 0 => ~Returned

\* C7 amended: with a matrix of zero rows max_size raises no error and
\* returns the size (0, 0) at position (1, 0).
C7_EmptyMatrixResult ==
    (Returned /\ Len(mat) = 0) => result = <<<<0, 0>>, <<1, 0>>>>

C7_Witness ==
    /\ Returned
    /\ Len(mat) = 0
    /\ result = <<<<0, 0>>, <<1, 0>>>>

\* C8 as stated: with a ragged matrix max_size fails when the row is
\* processed and returns no result.
C8_RaggedFails ==
    (pc # "direct" /\ Ragged(mat)) => ~Returned

\* C8 amended: with a ragged matrix max_size raises no error; zipping a row
\* with the carried histogram truncates the histogram to the shorter of the
\* two, so after k rows the histogram has the length of the shortest of
\* them, every row is processed, and a result is returned.
C8_RaggedTruncates ==
    /\ pc \in {"wait0", "wait", "loop", "done"} => Len(hist) = MinLen(mat, it)
    /\ Returned => it = Len(mat)

\* a ragged matrix whose rows were truncated and that still got a rectangle
C8_Witness ==
    /\ Returned
    /\ Ragged(mat)
    /\ Len(hist) < Len(mat[1])
    /\ Len(hist) = MinLen(mat, Len(mat))
    /\ Area(result[1]) >= 2

\* C9: in the scan phase a popped frame's candidate
\* (frame_height, pos - frame_start) replaces the running best only if its
\* area is strictly greater; on an exact tie the earlier best is kept.
C9_ScanStrict ==
    [][(rpc = "scan" /\ Len(stack) > 0 /\ Height < Top.height) =>
        LET cand == <<Top.height, pos - Top.start>>
        IN  /\ Area(cand) > Area(r_max_size) => r_max_size' = cand
            /\ Area(cand) <= Area(r_max_size) => r_max_size' = r_max_size]_vars

\* a pop whose candidate tied with a different earlier best, which was kept
C9_Witness ==
    /\ ev.op = "pop"
    /\ Area(ev.cand) = Area(ev.prev)
    /\ ev.cand # ev.prev
    /\ r_max_size = ev.prev

\* C10: in the flush phase a remaining frame's candidate
\* (frame_height, W - frame_start) whose area ties with the running best
\* becomes the best (non-strict >= on area).
C10_FlushTieTakesLater ==
    [][(rpc = "flush" /\ fi < Len(stack)) =>
        LET frame == stack[fi + 1]
            cand == <<frame.height, pos - frame.start>>
        IN  Area(cand) >= Area(r_max_size) => r_max_size' = cand]_vars

\* the histogram max_size has built once the first k >= 1 rows of m are read
RECURSIVE HistAt(_, _, _)
HistAt(m, v, k) ==
    IF k = 1 THEN FirstHist(m, v)
    ELSE UpdateHist(HistAt(m, v, k - 1), m[k], v)

\* the 0-based indices of the rows read so far whose histogram reaches the
\* largest area any of them reaches
BestRows(m, v, k) ==
    LET best == SetMax({BruteHistArea(HistAt(m, v, r)) : r \in 1..k})
    IN  {r - 1 : r \in {q \in 1..k : BruteHistArea(HistAt(m, v, q)) = best}}

\* C11: in max_size a row's candidate replaces the global best (size, start
\* column, row index) only if its area is strictly greater, so the best comes
\* from the earliest row whose histogram reaches the maximal area; for
\* [[0,1,0],[1,1,1],[0,1,0]] and target 1 the result is height 1, width 3,
\* top_row 1, left_column 0.
C11_EarliestRow ==
    /\ (pc = "loop" /\ it >= 1) =>
          /\ start_row = SetMin(BestRows(mat, value, it))
          /\ Area(max_size) = BruteHistArea(HistAt(mat, value, start_row + 1))
    /\ (Returned /\ value = 1
          /\ mat = <<<<0, 1, 0>>, <<1, 1, 1>>, <<0, 1, 0>>>>) =>
          result = <<<<1, 3>>, <<1, 0>>>>

\* the scenario matrix has returned: its last row ties (3 x 1, area 3) with
\* the middle row (1 x 3), and the middle row's rectangle was kept
C11_Witness ==
    /\ Returned
    /\ value = 1
    /\ mat = <<<<0, 1, 0>>, <<1, 1, 1>>, <<0, 1, 0>>>>
    /\ BestRows(mat, value, 3) = {1, 2}
    /\ start_row = 1
    /\ result = <<<<1, 3>>, <<1, 0>>>>

\* C12: for every histogram the start column max_rectangle_size returns is
\* the start column of the returned best rectangle: the columns
\* start .. start+width-1 exist and all have height >= the returned height.
C12_StartOfBest ==
    rpc = "ret" =>
        \A c \in (r_start_pos + 1)..(r_start_pos + r_max_size[2]) :
            /\ c \in DOMAIN histogram
            /\ histogram[c] >= r_max_size[1]

\* frame heights and frame start columns strictly increase from the bottom
\* of the stack to its top
StackMonotone ==
    \A i \in 1..Len(stack) : \A j \in (i + 1)..Len(stack) :
        /\ stack[i].height < stack[j].height
        /\ stack[i].start < stack[j].start

\* C13: at every point of the scan the stack is monotonic (heights and start
\* columns strictly increase bottom to top); a frame is pushed only when the
\* stack is empty or the top's height is less than the current height;
\* nothing is pushed when the top's height equals the current height; and
\* when the scan leaves a column no frame higher than that column is left.
C13_MonotonicStack ==
    /\ []StackMonotone
    /\ [][rpc = "scan" =>
            /\ Len(stack') > Len(stack) =>
                  /\ Len(stack) = 0 \/ Top.height < Height
                  /\ stack' = Append(stack, Info(start, Height))
            /\ (Len(stack) > 0 /\ Top.height = Height) => stack' = stack
            /\ (pos' # pos \/ rpc' = "post") =>
                  \A i \in 1..Len(stack') : stack'[i].height <= Height]_vars

\* a column lower than the two frames stacked before it has popped both, and
\* the scan has ended with a monotonic stack of at least two frames
C13_Witness ==
    /\ rpc = "post"
    /\ Len(stack) >= 2
    /\ \E c \in 2..pos : /\ histogram[c - 1] < histogram[c]
                         /\ histogram[c + 1] < histogram[c - 1]
    /\ StackMonotone

\* the counts of one call of max_rectangle_size on a histogram of length W:
\* one push at most per finished column, no more pops than pushes, the
\* stack holds the frames pushed and not popped, never more than W
PushPopBounded ==
    /\ npush <= Len(histogram)
    /\ rpc = "scan" => npush <= pos
    /\ npop <= npush
    /\ Len(stack) = npush - npop
    /\ Len(stack) <= Len(histogram)

\* an upper bound of the steps max_rectangle_size still has to take: two
\* for every column not yet left and one for every stacked frame while it
\* scans, one for every frame not yet visited while it flushes
StepsLeft ==
    CASE rpc = "scan" ->
            2 * (Len(histogram) - pos) + Len(stack) + Len(histogram) + 3
      [] rpc = "post" -> Len(histogram) + 2
      [] rpc = "flush" -> (Len(stack) - fi) + 1
      [] OTHER -> 0

Running == rpc \in {"scan", "post", "flush"}

\* C14: for every histogram of length W, max_rectangle_size terminates (while
\* it runs it always has a next step, and every step lowers a non-negative
\* bound of the steps left), performs at most one push per column (at most W
\* pushes and at most W pops in total), and the stack never holds more than
\* W frames.
C14_TerminatesBounded ==
    /\ []PushPopBounded
    /\ [](Running => (StepsLeft > 0 /\ ENABLED Next))
    /\ [][Running => StepsLeft' < StepsLeft]_vars

\* a call that pushed once for every column, popped twice, and returned
C14_Witness ==
    /\ rpc = "ret"
    /\ Len(histogram) >= 3
    /\ npush = Len(histogram)
    /\ npop >= 2
    /\ Len(stack) = npush - npop

\* C15: the update test of the flush loop is always true, so every frame
\* visited overwrites start_pos, and for every non-empty histogram the
\* returned start_pos is the start column of the top frame left on the stack
\* by the scan, whichever candidate produced the returned best size.
C15_StartOfTopFrame ==
    /\ (rpc = "flush" /\ fi >= 1) => r_start_pos = stack[fi].start
    /\ (rpc = "ret" /\ Len(histogram) > 0) =>
          /\ Len(stack) >= 1
          /\ r_start_pos = Top.start

\* a call returned a best that a pop produced and that is larger than the
\* top frame's rectangle, with the top frame's start as start_pos
C15_Witness ==
    /\ rpc = "ret"
    /\ Len(stack) >= 2
    /\ Area(FlushCandidate(Top, pos)) < Area(r_max_size)
    /\ \A i \in 1..Len(stack) : FlushCandidate(stack[i], pos) # r_max_size
    /\ r_start_pos = Top.start
    /\ r_start_pos > 0

\* C16: for a rectangular matrix whose result has positive area, the returned
\* size and top_row are realizable even when left_column is not:
\* 0 <= top_row, top_row + height <= H, and some column x with
\* x + width <= W has every cell of rows top_row .. top_row+height-1 and
\* columns x .. x+width-1 equal to the target value.
C16_SizeAndRowRealizable ==
    (Returned /\ IsRect(mat) /\ Area(result[1]) > 0) =>
        /\ result[2][1] >= 0
        /\ result[2][1] + result[1][1] <= NRows
        /\ \E x \in 0..(NCols - result[1][2]) :
              Uniform(mat, value, result[2][1], x, result[1][1], result[1][2])

\* a result whose left_column is wrong while its size and top_row fit at
\* another column
C16_Witness ==
    /\ Returned
    /\ IsRect(mat)
    /\ Area(result[1]) >= 2
    /\ result[2][1] >= 1
    /\ ~Uniform(mat, value, result[2][1], result[2][2],
                result[1][1], result[1][2])
    /\ \E x \in 0..(NCols - result[1][2]) :
          Uniform(mat, value, result[2][1], x, result[1][1], result[1][2])

====
